---- MODULE Spec2Model ----
(***************************************************************************)
(* Model of blog.py: the Entry store, the administrator decorator and      *)
(* ComposeHandler.post (create and update of entries), with the slug       *)
(* derivation of the create path.                                          *)
(*                                                                         *)
(* Text is modelled as a sequence of characters, each character a string.  *)
(***************************************************************************)
EXTENDS Integers, Sequences, FiniteSets, TLC

-----------------------------------------------------------------------------
(* Bounds of the model *)

\* number of datastore writes in one behaviour
MaxWrites == 2
\* length of the titles enumerated for the slug derivation alone
MaxTitleLen == 3

-----------------------------------------------------------------------------
(* Characters and text *)

None == "None"

LowerLetters == {"a", "d", "e", "h", "l", "n", "o", "r", "t", "w", "y"}
UpperLetters == {"A", "H", "W"}
Digits == {"2"}
\* U+00E9 decomposes under NFKD; U+65E5 has no decomposition and no ASCII form
NonAscii == {"U+00E9", "U+0301", "U+65E5"}

\* the characters r"\w" matches in a byte string (no re.UNICODE flag)
WordChars == LowerLetters \cup UpperLetters \cup Digits \cup {"_"}

RECURSIVE Concat(_)
\* the concatenation of a sequence of texts
Concat(ss) == IF ss = <<>> THEN <<>> ELSE Head(ss) \o Concat(Tail(ss))

\* unicodedata.normalize("NFKD", c) of one character
NfkdChar(c) == IF c = "U+00E9" THEN <<"e", "U+0301">> ELSE <<c>>

\* unicodedata.normalize("NFKD", title)
Nfkd(s) == Concat([i \in 1..Len(s) |-> NfkdChar(s[i])])

IsAscii(c) == c \notin NonAscii

\* .encode("ascii", "ignore")
EncodeAsciiIgnore(s) == SelectSeq(s, IsAscii)

RECURSIVE ReSubNonWord(_)
\* re.sub(r"[^\w]+", " ", slug): each maximal run of non-word characters
\* becomes one space
ReSubNonWord(s) ==
    IF s = <<>> THEN <<>>
    ELSE IF Head(s) \in WordChars THEN <<Head(s)>> \o ReSubNonWord(Tail(s))
    ELSE IF Len(s) > 1 /\ s[2] \notin WordChars THEN ReSubNonWord(Tail(s))
    ELSE <<" ">> \o ReSubNonWord(Tail(s))

LowerChar(c) ==
    CASE c = "A" -> "a"
      [] c = "H" -> "h"
      [] c = "W" -> "w"
      [] OTHER -> c

\* str.lower()
Lower(s) == [i \in 1..Len(s) |-> LowerChar(s[i])]

RECURSIVE StripLeft(_)
StripLeft(s) == IF s # <<>> /\ Head(s) = " " THEN StripLeft(Tail(s)) ELSE s

RECURSIVE StripRight(_)
StripRight(s) ==
    IF s # <<>> /\ s[Len(s)] = " " THEN StripRight(SubSeq(s, 1, Len(s) - 1)) ELSE s

\* str.strip()
Strip(s) == StripRight(StripLeft(s))

RECURSIVE SplitFrom(_, _)
\* the words of s after the word cur that is being read
SplitFrom(s, cur) ==
    IF s = <<>> THEN (IF cur = <<>> THEN <<>> ELSE <<cur>>)
    ELSE IF Head(s) = " "
         THEN (IF cur = <<>> THEN <<>> ELSE <<cur>>) \o SplitFrom(Tail(s), <<>>)
         ELSE SplitFrom(Tail(s), Append(cur, Head(s)))

\* str.split(): the maximal runs of non-whitespace characters
Split(s) == SplitFrom(s, <<>>)

RECURSIVE Join(_, _)
\* sep.join(words)
Join(sep, words) ==
    IF words = <<>> THEN <<>>
    ELSE IF Len(words) = 1 THEN words[1]
    ELSE words[1] \o sep \o Join(sep, Tail(words))

FallbackSlug == <<"e", "n", "t", "r", "y">>

\* "-".join(slug.lower().strip().split()) of the ASCII, word-only text
SlugWords(title) ==
    Join(<<"-">>, Split(Strip(Lower(ReSubNonWord(EncodeAsciiIgnore(Nfkd(title)))))))

BaseSlugNoFallback(title) == SlugWords(title)

\* lines 130-134: the slug before the collision search
BaseSlug(title) == IF SlugWords(title) = <<>> THEN FallbackSlug ELSE SlugWords(title)

-----------------------------------------------------------------------------
(* Collaborators: Google Accounts, markdown, the datastore *)

\* the request threads of the surrounding server
Threads == {"t1", "t2"}

\* users.is_current_user_admin() holds of these
Admins == {"alice", "bob"}
\* the logged-in users; users.get_current_user() is None without a login
Users == Admins \cup {"carol"}

HelloWorld == <<"H", "e", "l", "l", "o", ",", " ", "W", "o", "r", "l", "d", "!">>
HelloWorld2 == <<"H", "e", "l", "l", "o", " ", "W", "o", "r", "l", "d", " ", "2">>
HelloWorldSlug == <<"h", "e", "l", "l", "o", "-", "w", "o", "r", "l", "d">>
\* the "title" arguments of the requests
Titles == {<<>>, HelloWorld, HelloWorld2}
\* the "markdown" arguments of the requests (an empty one is refused by the
\* required body as an empty title is by the required title)
Bodies == {<<"a">>, <<"&">>}

EscapeChar(c) == IF c = "&" THEN <<"&amp;">> ELSE <<c>>

\* markdown.markdown(text) of one paragraph of plain text
Render(text) ==
    IF Strip(text) = <<>> THEN <<>>
    ELSE <<"<p>">> \o Concat([i \in 1..Len(text) |-> EscapeChar(text[i])]) \o <<"</p>">>

\* markdown.markdown of each "markdown" argument, computed once
Rendered == [md \in Bodies |-> Render(md)]

\* the slug derived from each "title" argument, computed once
TitleSlug == [ti \in Titles |-> BaseSlug(ti)]

EmptyNever(value) == FALSE

\* db.Property.empty(value), which required=True refuses
Empty(value) == value = <<>>

\* lines 34-37: required=True of title, slug, body and markdown
Required(value) == ~Empty(value)

\* the first required property that refuses its value, None when all pass
BadProperty(ti, sl, bo, md) ==
    CASE ~Required(ti) -> "title"
      [] ~Required(sl) -> "slug"
      [] ~Required(bo) -> "body"
      [] ~Required(md) -> "markdown"
      [] OTHER -> None

-----------------------------------------------------------------------------
(* State *)

VARIABLES
    store,          \* the Entry entities, by key (the datastore assigns 1, 2, ...)
    clock,          \* datetime.now(), counted in writes
    pc,             \* where each thread is in ComposeHandler.post
    current_user,   \* self.current_user of the request of each thread
    key,            \* the local key
    title,          \* self.get_argument("title")
    text,           \* self.get_argument("markdown")
    slug,           \* the local slug of the create path
    entry,          \* the local entry, an Entry instance not yet written back
    resp,           \* the response of the request that the last step ended
    gen             \* a slug derivation on its own: title, slug, position

vars == <<store, clock, pc, current_user, key, title, text, slug, entry, resp, gen>>

\* an uncaught exception raised at a line of blog.py
Raised(exc, line, what) ==
    [exc |-> exc, line |-> line, what |-> what, location |-> <<>>]

\* line 148: self.redirect("/entry/" + entry.slug)
Redirect(s) ==
    [exc |-> None, line |-> 148, what |-> "redirect", location |-> <<"/entry/">> \o s]

\* the last step ended no request
NoResp == [exc |-> None, line |-> 0, what |-> None, location |-> <<>>]

\* the value None of the local entry
NoEntry ==
    [key |-> 0, author |-> None, title |-> <<>>, slug |-> <<>>, body |-> <<>>,
     markdown |-> <<>>, published |-> 0]

GenIdle == [title |-> <<>>, slug |-> <<>>, pc |-> "off"]

\* an entity written by an earlier run of the program
Seeded ==
    [key |-> 0, author |-> "alice", title |-> HelloWorld, slug |-> HelloWorldSlug,
     body |-> <<"a">>, markdown |-> <<"<p>", "a", "</p>">>, published |-> 0]

\* the datastore outlives the program: it starts empty or holding an entity
InitialStores == {<<>>, <<Seeded>>}

\* no request is running
Waiting ==
    /\ clock = 0
    /\ pc = [t \in Threads |-> "idle"]
    /\ current_user = [t \in Threads |-> None]
    /\ key = [t \in Threads |-> 0]
    /\ title = [t \in Threads |-> <<>>]
    /\ text = [t \in Threads |-> <<>>]
    /\ slug = [t \in Threads |-> <<>>]
    /\ entry = [t \in Threads |-> NoEntry]
    /\ resp = NoResp

Init ==
    /\ store \in InitialStores
    /\ Waiting
    /\ gen = GenIdle

-----------------------------------------------------------------------------
(* The administrator decorator *)

AdministratorAnyUser(user) == IF user = None THEN 50 ELSE 0

\* lines 45-57 for a POST: 0 when the wrapped method is called, else the line
\* that raises (web is no name of the module, so the raise ends in a NameError)
Administrator(user) ==
    IF user = None THEN 50
    ELSE IF user \notin Admins THEN 55
    ELSE 0

\* the handler returns or raises: the request ends with response r and the
\* thread is free for the next request
Finish(t, r) ==
    /\ resp' = r
    /\ pc' = [pc EXCEPT ![t] = "idle"]
    /\ current_user' = [current_user EXCEPT ![t] = None]
    /\ key' = [key EXCEPT ![t] = 0]
    /\ title' = [title EXCEPT ![t] = <<>>]
    /\ text' = [text EXCEPT ![t] = <<>>]
    /\ slug' = [slug EXCEPT ![t] = <<>>]
    /\ entry' = [entry EXCEPT ![t] = NoEntry]

\* a POST /compose the wrapper refuses: the wrapped method does not run
Refuse(t, user) ==
    /\ pc[t] = "idle"
    /\ Administrator(user) # 0
    /\ Finish(t, Raised("NameError", Administrator(user), "web"))
    /\ UNCHANGED <<store, clock, gen>>

-----------------------------------------------------------------------------
(* ComposeHandler.post *)

\* the bound of the model: a request is taken up while a write is left for it
Admitted == clock + Cardinality({u \in Threads : pc[u] # "idle"}) < MaxWrites

\* lines 121-122, 129-134: the wrapper calls post, which finds no key and
\* derives the slug from the title
Create(t, user, ti, md) ==
    /\ pc[t] = "idle"
    /\ Administrator(user) = 0
    /\ Admitted
    /\ current_user' = [current_user EXCEPT ![t] = user]
    /\ key' = [key EXCEPT ![t] = 0]
    /\ title' = [title EXCEPT ![t] = ti]
    /\ text' = [text EXCEPT ![t] = md]
    /\ slug' = [slug EXCEPT ![t] = TitleSlug[ti]]
    /\ pc' = [pc EXCEPT ![t] = "probe"]
    /\ resp' = NoResp
    /\ UNCHANGED <<store, clock, entry, gen>>

\* Entry.get(key): the entity of that key, None (NoEntry) when there is none
EntryGet(k) ==
    IF k \in 1..Len(store) THEN [store[k] EXCEPT !.key = k] ELSE NoEntry

UpdatedEntryStale(e, ti, md) == [e EXCEPT !.title = ti, !.body = md]

UpdatedEntryReslug(e, ti, md) ==
    [e EXCEPT !.title = ti, !.body = md, !.markdown = Rendered[md], !.slug = TitleSlug[ti]]

\* lines 125-127: the assignments of the update path
UpdatedEntry(e, ti, md) ==
    [e EXCEPT !.title = ti, !.body = md, !.markdown = Rendered[md]]

\* lines 121-127: the wrapper calls post, which finds a key, fetches the
\* entity (the first storage call of the request) and assigns title, body
\* and markdown; assigning to None raises, as does a refused value
Update(t, user, k, ti, md) ==
    /\ pc[t] = "idle"
    /\ Administrator(user) = 0
    /\ k # 0
    /\ Admitted
    /\ LET e == EntryGet(k)
           bad == BadProperty(ti, e.slug, md, Rendered[md])
       IN IF e = NoEntry
          THEN Finish(t, Raised("AttributeError", 125, "title"))
          ELSE IF bad # None
          THEN Finish(t, Raised("BadValueError",
                                CASE bad = "title" -> 125
                                  [] bad = "body" -> 126
                                  [] OTHER -> 127, bad))
          ELSE /\ current_user' = [current_user EXCEPT ![t] = user]
               /\ key' = [key EXCEPT ![t] = k]
               /\ title' = [title EXCEPT ![t] = ti]
               /\ text' = [text EXCEPT ![t] = md]
               /\ entry' = [entry EXCEPT ![t] = UpdatedEntry(e, ti, md)]
               /\ pc' = [pc EXCEPT ![t] = "put"]
               /\ resp' = NoResp
               /\ UNCHANGED slug
    /\ UNCHANGED <<store, clock, gen>>

\* the "key" arguments that are keys: those of the stored entities and one
\* that no entity has
Keys == 1..(Len(store) + 1)

\* the slugs of the stored entities
Slugs == {store[k].slug : k \in 1..Len(store)}

ExistingNever(s) == 0

\* line 136: db.Query(Entry).filter("slug =", slug).get(), as the key of the
\* entity found, 0 when the query finds none
Existing(s) ==
    IF \E k \in 1..Len(store) : store[k].slug = s
    THEN CHOOSE k \in 1..Len(store) : store[k].slug = s
    ELSE 0

SuffixThree == <<"-", "3">>

SuffixNone == <<>>

\* line 139
Suffix == <<"-", "2">>

\* lines 140-146: Entry(author=..., title=..., slug=..., body=..., markdown=...);
\* auto_now_add gives published its value when the instance is made
NewEntry(user, ti, sl, md) ==
    [key |-> 0, author |-> user, title |-> ti, slug |-> sl, body |-> md,
     markdown |-> Rendered[md], published |-> clock]

\* lines 135-146: one turn of the loop; leaving it, the Entry is constructed
Probe(t) ==
    /\ pc[t] = "probe"
    /\ LET existing == Existing(slug[t])
           bad == BadProperty(title[t], slug[t], text[t], Rendered[text[t]])
       IN IF ~(existing = 0 \/ existing = key[t])
          THEN /\ slug' = [slug EXCEPT ![t] = slug[t] \o Suffix]
               /\ resp' = NoResp
               /\ UNCHANGED <<pc, current_user, key, title, text, entry>>
          ELSE IF bad # None
          THEN Finish(t, Raised("BadValueError", 140, bad))
          ELSE /\ entry' = [entry EXCEPT ![t] =
                              NewEntry(current_user[t], title[t], slug[t], text[t])]
               /\ pc' = [pc EXCEPT ![t] = "put"]
               /\ resp' = NoResp
               /\ UNCHANGED <<current_user, key, title, text, slug>>
    /\ UNCHANGED <<store, clock, gen>>

\* entry.put(): a new entity gets the next key, a fetched one is overwritten
\* (the property updated, which no handler reads, is left out)
Stored(e) == [e EXCEPT !.key = 0]

\* lines 147-148
Put(t) ==
    /\ pc[t] = "put"
    /\ store' = IF entry[t].key = 0
                THEN Append(store, Stored(entry[t]))
                ELSE [store EXCEPT ![entry[t].key] = Stored(entry[t])]
    /\ clock' = clock + 1
    /\ Finish(t, Redirect(entry[t].slug))
    /\ UNCHANGED gen

Next ==
    \E t \in Threads :
        \/ \E user \in Users \cup {None} : Refuse(t, user)
        \/ \E user \in Users \cup {None}, ti \in Titles, md \in Bodies :
               Create(t, user, ti, md)
        \/ \E user \in Users \cup {None}, k \in Keys, ti \in Titles, md \in Bodies :
               Update(t, user, k, ti, md)
        \/ Probe(t)
        \/ Put(t)

Spec == Init /\ [][Next]_vars

\* requests run one at a time: a call is taken up only when no other call is
\* between its first storage read and its write
Quiet == \A u \in Threads : pc[u] = "idle"

SerialNext ==
    \E t \in Threads :
        \/ \E user \in Users \cup {None} : Refuse(t, user)
        \/ \E user \in Users \cup {None}, ti \in Titles, md \in Bodies :
               Quiet /\ Create(t, user, ti, md)
        \/ \E user \in Users \cup {None}, k \in Keys, ti \in Titles, md \in Bodies :
               Quiet /\ Update(t, user, k, ti, md)
        \/ Probe(t)
        \/ Put(t)

SerialSpec == Init /\ [][SerialNext]_vars

\* a request that has started runs on: every storage call returns
FairSpec ==
    /\ Spec
    /\ \A t \in Threads :
           WF_vars(Probe(t)) /\ WF_vars(Put(t))

-----------------------------------------------------------------------------
(* The slug derivation on its own, with an exists that finds nothing *)

GenAlphabet == {"a", "A", "2", "_", "-", " ", "!", "U+00E9", "U+65E5"}

GenTitles == UNION {[1..n -> GenAlphabet] : n \in 0..MaxTitleLen}

GenInit ==
    /\ store = <<>>
    /\ Waiting
    /\ gen \in {[title |-> ti, slug |-> <<>>, pc |-> "slug"] : ti \in GenTitles}

\* lines 130-134
GenSlug ==
    /\ gen.pc = "slug"
    /\ gen' = [gen EXCEPT !.slug = BaseSlug(gen.title), !.pc = "probe"]
    /\ UNCHANGED <<store, clock, pc, current_user, key, title, text, slug, entry, resp>>

\* lines 135-139 when the query finds nothing
GenProbe ==
    /\ gen.pc = "probe"
    /\ IF Existing(gen.slug) = 0
       THEN gen' = [gen EXCEPT !.pc = "done"]
       ELSE gen' = [gen EXCEPT !.slug = gen.slug \o Suffix]
    /\ UNCHANGED <<store, clock, pc, current_user, key, title, text, slug, entry, resp>>

GenNext == GenSlug \/ GenProbe

GenSpec == GenInit /\ [][GenNext]_vars

-----------------------------------------------------------------------------
(* Claims *)

Stored_keys == 1..Len(store)

Dash2 == <<"-", "2">>

\* C1: in every reachable state no two distinct stored entries have the same
\* slug, also when creates with colliding titles interleave their probes and
\* their writes.
SlugUniqueAlways ==
    \A j \in Stored_keys, k \in Stored_keys : j # k => store[j].slug # store[k].slug

\* C2: no step changes the slug, the author or the published timestamp of a
\* stored entry; an update rewrites title, body and markdown only.
UpdateKeepsIdentity ==
    [][\A k \in Stored_keys :
          /\ store'[k].slug = store[k].slug
          /\ store'[k].author = store[k].author
          /\ store'[k].published = store[k].published]_vars

\* an entry created as "Hello, World!" by alice, retitled by an update
UpdatedEntryStored ==
    \E k \in Stored_keys :
        /\ store[k].slug = HelloWorldSlug
        /\ store[k].title = HelloWorld2
        /\ store[k].body = <<"&">>

\* C3: the stored markdown of every entry is the rendering of its stored body.
RenderedMatchesBody ==
    \A k \in Stored_keys :
        store[k].markdown =
            (IF store[k].body = <<"a">> THEN <<"<p>", "a", "</p>">>
             ELSE IF store[k].body = <<"&">> THEN <<"<p>", "&amp;", "</p>">>
             ELSE <<>>)

\* two updates of one entry, with different bodies, both about to be written
ConcurrentUpdates ==
    \E t \in Threads, u \in Threads :
        /\ t # u
        /\ pc[t] = "put" /\ pc[u] = "put"
        /\ entry[t].key # 0 /\ entry[t].key = entry[u].key
        /\ entry[t].body # entry[u].body

\* C4: a create starts at the normalized title; each probe that finds the
\* candidate taken appends "-2", the first probe that finds it free ends the
\* search with that candidate; "Hello, World!" gives "hello-world" on an empty
\* store and "hello-world-2" when only "hello-world" is stored.
FirstFreeInChain ==
    /\ [][\A t \in Threads :
             pc[t] = "idle" /\ pc'[t] = "probe" => slug'[t] = TitleSlug[title'[t]]]_vars
    /\ [][\A t \in Threads :
             pc[t] = "probe" /\ (pc'[t] # "probe" \/ slug'[t] # slug[t]) =>
                 IF slug[t] \in Slugs
                 THEN pc'[t] = "probe" /\ slug'[t] = slug[t] \o Dash2
                 ELSE /\ pc'[t] \in {"put", "idle"}
                      /\ pc'[t] = "put" =>
                            /\ entry'[t].slug = slug[t]
                            /\ title[t] = HelloWorld /\ Slugs = {} =>
                                  entry'[t].slug = HelloWorldSlug
                            /\ title[t] = HelloWorld /\ Slugs = {HelloWorldSlug} =>
                                  entry'[t].slug = HelloWorldSlug \o Dash2]_vars

\* "Hello, World!" created twice, one call after the other
HelloWorldTwice ==
    /\ Len(store) = 2
    /\ store[1].slug = HelloWorldSlug
    /\ store[2].slug = HelloWorldSlug \o Dash2
    /\ store[2].title = HelloWorld

\* C5: a post with a key that no stored entry has ends with the not-found
\* error of the program (HTTPError(404), as at line 91) and writes nothing.
MissingKeyNotFound ==
    [][\A t \in Threads, user \in Users, k \in Keys, ti \in Titles, md \in Bodies :
          Update(t, user, k, ti, md) /\ k \notin Stored_keys =>
              /\ pc'[t] = "idle"
              /\ resp'.exc = "HTTPError" /\ resp'.what = "404"
              /\ store' = store]_vars

\* C6: a create with an empty title is refused by the required title property
\* when the Entry is constructed: nothing is written, and no entry with an
\* empty title or the slug "entry" is ever stored.
EmptyTitleRefused ==
    /\ [](\A k \in Stored_keys : store[k].title # <<>> /\ store[k].slug # FallbackSlug)
    /\ [](\A t \in Threads : pc[t] = "put" => entry[t].title # <<>>)
    /\ [][\A t \in Threads :
             pc[t] = "probe" /\ key[t] = 0 /\ title[t] = <<>> /\ pc'[t] # "probe" =>
                 /\ pc'[t] = "idle"
                 /\ resp' = Raised("BadValueError", 140, "title")
                 /\ store' = store]_vars

\* a create with an empty title has just ended
EmptyTitleRaised == resp = Raised("BadValueError", 140, "title")

\* C7: with nothing taken, the slug of every title is non-empty and made of
\* a-z, 0-9, underscore and hyphen only, and it is "entry" when the title has
\* no character that is, or decomposes to, an ASCII word character.
SlugWellFormed ==
    gen.pc = "done" =>
        /\ gen.slug # <<>>
        /\ \A i \in 1..Len(gen.slug) : gen.slug[i] \in {"a", "e", "2", "_", "-", "n", "t", "r", "y"}
        /\ (\A i \in 1..Len(gen.title) : gen.title[i] \in {"-", " ", "!", "U+65E5"}) =>
               gen.slug = <<"e", "n", "t", "r", "y">>

\* the slug of "!!!" has been derived
PunctuationOnlyTitle ==
    gen.pc = "done" /\ gen.title = <<"!", "!", "!">> /\ gen.slug = <<"e", "n", "t", "r", "y">>

\* C8: no create stays in the collision search for ever: every thread is
\* outside the loop again and again.
ProbeTerminates ==
    \A t \in Threads : []<>(pc[t] # "probe")

\* a search that went through two taken candidates has ended
SearchEndedAfterCollisions ==
    \E t \in Threads :
        /\ pc[t] = "put" /\ entry[t].key = 0
        /\ entry[t].slug = HelloWorldSlug \o Dash2 \o Dash2

\* C9: when requests run one at a time, no two stored entries share a slug,
\* and a create never holds, ready to be written, a slug that a stored entry
\* has.
SerialSlugUnique ==
    /\ \A j \in Stored_keys, k \in Stored_keys : j # k => store[j].slug # store[k].slug
    /\ \A t \in Threads :
           pc[t] = "put" /\ entry[t].key = 0 => entry[t].slug \notin Slugs

\* three entries whose titles all derive "hello-world" or collide with its chain
SerialCollisionsStored ==
    /\ Len(store) = 3
    /\ store[2].title = HelloWorld2 /\ store[2].slug = HelloWorldSlug \o Dash2
    /\ store[3].title = HelloWorld /\ store[3].slug = HelloWorldSlug \o Dash2 \o Dash2

\* C10: no step is the body of post run for a request without a user or of a
\* user who is no administrator; every request inside post, every write and
\* every stored author is an administrator's.
AdminOnlyWrites ==
    /\ [](\A t \in Threads :
             pc[t] \in {"probe", "put"} => current_user[t] \in {"alice", "bob"})
    /\ [](\A k \in Stored_keys : store[k].author \in {"alice", "bob"})
    /\ [][\A t \in Threads, user \in {None, "carol"}, ti \in Titles, md \in Bodies :
             /\ ~Create(t, user, ti, md)
             /\ \A k \in Keys : ~Update(t, user, k, ti, md)]_vars
    /\ [][store' # store =>
             \E t \in Threads :
                 pc[t] = "put" /\ pc'[t] = "idle" /\ current_user[t] \in {"alice", "bob"}]_vars

\* a logged-in user who is no administrator has just been refused, after
\* entries were written
NonAdminRefused == resp = Raised("NameError", 55, "web") /\ Len(store) > 1

====
